---- MODULE Spec2Model ----
(***************************************************************************)
(* Model of src/code/ch2/example.c.                                        *)
(*                                                                         *)
(* The program has three objects with static storage (message,             *)
(* initialized_var, uninitialized_var) and two functions (print_message,   *)
(* main).  A run is one invocation of the program: its command line, its   *)
(* copy of the three objects, its position in the code, the characters it  *)
(* has written to stdout and stderr, and the status it has returned to the *)
(* calling environment.                                                    *)
(*                                                                         *)
(* Two independent runs are modelled side by side (Runs), each with its    *)
(* own command line, so that properties that compare two runs can be       *)
(* stated as ordinary invariants.  Characters are their ASCII codes; a C   *)
(* string is a sequence of codes ending with NUL (0).  The standard output *)
(* stream is taken to be open and writable, as the specification assumes.  *)
(***************************************************************************)
EXTENDS Integers, Sequences, FiniteSets, TLC

\* Bound on the number of command-line arguments after the program name.
MaxArgs == 2

\* The two invocations that are compared.
Runs == {1, 2}

\* The words a command-line argument is drawn from: "a" and "b" as C strings.
ArgWords == {<<97, 0>>, <<98, 0>>}

RECURSIVE SeqsUpTo(_, _)
\* All sequences over S of length at most n.
SeqsUpTo(S, n) ==
    IF n = 0 THEN {<<>>}
    ELSE LET shorter == SeqsUpTo(S, n - 1)
         IN  shorter \cup {Append(s, w) : s \in {t \in shorter : Len(t) = n - 1}, w \in S}

\* The command lines a run can be started with.
ArgLists == SeqsUpTo(ArgWords, MaxArgs)

VARIABLES
    argv,               \* argv[r]: the arguments run r was started with
    pc,                 \* pc[r]: the source line run r executes next, or "exited"
    message,            \* message[r]: the array `message` of run r
    initialized_var,    \* initialized_var[r]
    uninitialized_var,  \* uninitialized_var[r]
    stdout,             \* stdout[r]: characters run r has written to stdout
    stderr,             \* stderr[r]: characters run r has written to stderr
    exit_status         \* exit_status[r]: <<>> while running, <<s>> once main returned s

vars == <<argv, pc, message, initialized_var, uninitialized_var,
          stdout, stderr, exit_status>>

----------------------------------------------------------------------------
(* The initializers of the file-scope objects. *)

\* const char message[] = "Hello from ELF!";   (16 bytes, NUL included)
message_init ==
    <<72, 101, 108, 108, 111, 32, 102, 114, 111, 109, 32, 69, 76, 70, 33, 0>>

\* int initialized_var = 42;
initialized_var_init == 42

\* uninitialized_var given the initializer of initialized_var.
uninitialized_var_init_as_data == initialized_var_init

\* int uninitialized_var;   (static storage without initializer: zero)
uninitialized_var_init == 0

----------------------------------------------------------------------------
(* printf("%s\n", message) *)

\* The format string with a second newline: "%s\n\n".
format_two_newlines == <<37, 115, 10, 10, 0>>

\* The format string "%s\n".
format == <<37, 115, 10, 0>>

RECURSIVE strlen_from(_, _)
\* Number of characters of the array a from index i up to the first NUL.
strlen_from(a, i) ==
    IF i > Len(a) \/ a[i] = 0 THEN 0 ELSE 1 + strlen_from(a, i + 1)

\* The C string of a with its terminating NUL counted as a character.
c_str_with_nul(a) == SubSeq(a, 1, strlen_from(a, 1) + 1)

\* The characters of the C string held in array a (the NUL excluded).
c_str(a) == SubSeq(a, 1, strlen_from(a, 1))

RECURSIVE vformat(_, _, _)
\* The characters printf produces for the format fmt read from index i on,
\* with the remaining arguments args: %s is replaced by the characters of
\* the next argument, any other character is copied.
vformat(fmt, i, args) ==
    IF i > Len(fmt) \/ fmt[i] = 0 THEN <<>>
    ELSE IF fmt[i] = 37 /\ i < Len(fmt) /\ fmt[i + 1] = 115 /\ args # <<>>
         THEN c_str(Head(args)) \o vformat(fmt, i + 2, Tail(args))
         ELSE <<fmt[i]>> \o vformat(fmt, i + 1, args)

\* printf(fmt, args...): the characters appended to stdout.
printf(fmt, args) == vformat(fmt, 1, args)

----------------------------------------------------------------------------
(* State after the loader has set up the process image. *)

Init ==
    /\ argv \in [Runs -> ArgLists]
    /\ pc = [r \in Runs |-> "L13"]
    /\ message = [r \in Runs |-> message_init]
    /\ initialized_var = [r \in Runs |-> initialized_var_init]
    /\ uninitialized_var = [r \in Runs |-> uninitialized_var_init]
    /\ stdout = [r \in Runs |-> <<>>]
    /\ stderr = [r \in Runs |-> <<>>]
    /\ exit_status = [r \in Runs |-> <<>>]

----------------------------------------------------------------------------
(* The statements. *)

\* Line 13 with the operands exchanged: initialized_var = uninitialized_var;
main_assign_reversed(r) ==
    /\ pc[r] = "L13"
    /\ initialized_var' = [initialized_var EXCEPT ![r] = uninitialized_var[r]]
    /\ pc' = [pc EXCEPT ![r] = "L14"]
    /\ UNCHANGED <<argv, message, uninitialized_var, stdout, stderr, exit_status>>

\* Line 13 storing one more than the value read.
main_assign_off_by_one(r) ==
    /\ pc[r] = "L13"
    /\ uninitialized_var' = [uninitialized_var EXCEPT ![r] = initialized_var[r] + 1]
    /\ pc' = [pc EXCEPT ![r] = "L14"]
    /\ UNCHANGED <<argv, message, initialized_var, stdout, stderr, exit_status>>

\* Line 13 replaced by a no-op.
main_assign_noop(r) ==
    /\ pc[r] = "L13"
    /\ pc' = [pc EXCEPT ![r] = "L14"]
    /\ UNCHANGED <<argv, message, initialized_var, uninitialized_var,
                   stdout, stderr, exit_status>>

\* Line 13: uninitialized_var = initialized_var;
main_assign(r) ==
    /\ pc[r] = "L13"
    /\ uninitialized_var' = [uninitialized_var EXCEPT ![r] = initialized_var[r]]
    /\ pc' = [pc EXCEPT ![r] = "L14"]
    /\ UNCHANGED <<argv, message, initialized_var, stdout, stderr, exit_status>>

\* Line 14 placed before the assignment: the call comes first.
main_call_print_message_early(r) ==
    /\ pc[r] \in {"L13", "L14"}
    /\ pc' = [pc EXCEPT ![r] = "L9"]
    /\ UNCHANGED <<argv, message, initialized_var, uninitialized_var,
                   stdout, stderr, exit_status>>

\* Line 14: print_message();   control enters print_message.
main_call_print_message(r) ==
    /\ pc[r] = "L14"
    /\ pc' = [pc EXCEPT ![r] = "L9"]
    /\ UNCHANGED <<argv, message, initialized_var, uninitialized_var,
                   stdout, stderr, exit_status>>

\* Lines 8-10 with a store to uninitialized_var added.
print_message_clobbers(r) ==
    /\ pc[r] = "L9"
    /\ stdout' = [stdout EXCEPT ![r] = @ \o printf(format, <<message[r]>>)]
    /\ uninitialized_var' = [uninitialized_var EXCEPT ![r] = 0]
    /\ pc' = [pc EXCEPT ![r] = "L15"]
    /\ UNCHANGED <<argv, message, initialized_var, stderr, exit_status>>

\* Lines 8-10: printf("%s\n", message); then return to main.
print_message(r) ==
    /\ pc[r] = "L9"
    /\ stdout' = [stdout EXCEPT ![r] = @ \o printf(format, <<message[r]>>)]
    /\ pc' = [pc EXCEPT ![r] = "L15"]
    /\ UNCHANGED <<argv, message, initialized_var, uninitialized_var,
                   stderr, exit_status>>

\* Line 15 returning the argument count: return argc;
main_return_argc(r) ==
    /\ pc[r] = "L15"
    /\ exit_status' = [exit_status EXCEPT ![r] = <<Len(argv[r]) + 1>>]
    /\ pc' = [pc EXCEPT ![r] = "exited"]
    /\ UNCHANGED <<argv, message, initialized_var, uninitialized_var, stdout, stderr>>

\* Line 15 returning the assigned variable: return uninitialized_var;
main_return_var(r) ==
    /\ pc[r] = "L15"
    /\ exit_status' = [exit_status EXCEPT ![r] = <<uninitialized_var[r]>>]
    /\ pc' = [pc EXCEPT ![r] = "exited"]
    /\ UNCHANGED <<argv, message, initialized_var, uninitialized_var, stdout, stderr>>

\* Line 15 preceded by a loop that never ends: for (;;);
main_return_spins(r) ==
    /\ pc[r] = "L15"
    /\ UNCHANGED vars

\* Line 15: return 0;   the process ends with status 0.
main_return(r) ==
    /\ pc[r] = "L15"
    /\ exit_status' = [exit_status EXCEPT ![r] = <<0>>]
    /\ pc' = [pc EXCEPT ![r] = "exited"]
    /\ UNCHANGED <<argv, message, initialized_var, uninitialized_var, stdout, stderr>>

----------------------------------------------------------------------------
(* The program: both runs execute the code of example.c. *)

\* One step of run r.
Step(r) ==
    \/ main_assign(r)
    \/ main_call_print_message(r)
    \/ print_message(r)
    \/ main_return(r)

Next == \E r \in Runs : Step(r)

Spec == Init /\ [][Next]_vars

\* A started process keeps executing: each run takes its next step.
FairSpec == Spec /\ \A r \in Runs : WF_vars(Step(r))

(* The comparison of the program with its variant in which the assignment  *)
(* of line 13 is replaced by a no-op: run 1 executes example.c, run 2 the  *)
(* variant.                                                                *)

\* One step of the variant program.
StepNoop(r) ==
    \/ main_assign_noop(r)
    \/ main_call_print_message(r)
    \/ print_message(r)
    \/ main_return(r)

NextNoop ==
    \/ Step(1)
    \/ StepNoop(2)

SpecNoop == Init /\ [][NextNoop]_vars

----------------------------------------------------------------------------
(* Properties. *)

\* The line "Hello from ELF!" and the newline that ends it.
HelloLine ==
    <<72, 101, 108, 108, 111, 32, 102, 114, 111, 109, 32, 69, 76, 70, 33, 10>>

\* Run r has returned from main.
Exited(r) == pc[r] = "exited"

RECURSIVE CountNewlines(_)
\* Number of newline characters in s: the number of complete lines.
CountNewlines(s) ==
    IF s = <<>> THEN 0
    ELSE (IF Head(s) = 10 THEN 1 ELSE 0) + CountNewlines(Tail(s))

\* C1: a run started with no arguments ends with stdout holding exactly
\* "Hello from ELF!" followed by one newline, and with exit status 0.
C1_NoArgsOutput ==
    \A r \in Runs :
        (argv[r] = <<>> /\ Exited(r)) =>
            (stdout[r] = HelloLine /\ exit_status[r] = <<0>>)

C1_Witness ==
    \E r \in Runs : argv[r] = <<>> /\ Exited(r) /\ Len(stdout[r]) = 16

\* C2: in every run the assignment comes first, then the write to stdout,
\* then the return of status 0: the step that assigns happens while nothing
\* has been written or returned, the step that writes happens after the
\* assignment and before the status is set, and the step that sets the
\* status happens after the write and sets it to 0.
C2_Order ==
    [][\A r \in Runs :
        /\ (uninitialized_var'[r] # uninitialized_var[r]) =>
               (stdout[r] = <<>> /\ exit_status[r] = <<>>
                /\ stdout'[r] = <<>> /\ exit_status'[r] = <<>>)
        /\ (stdout'[r] # stdout[r]) =>
               (uninitialized_var[r] = initialized_var[r]
                /\ stdout[r] = <<>>
                /\ exit_status[r] = <<>> /\ exit_status'[r] = <<>>)
        /\ (exit_status'[r] # exit_status[r]) =>
               (uninitialized_var[r] = initialized_var[r]
                /\ stdout[r] # <<>> /\ stdout'[r] = stdout[r]
                /\ exit_status[r] = <<>> /\ exit_status'[r] = <<0>>)
      ]_vars

C2_Witness ==
    \E r \in Runs :
        /\ exit_status[r] = <<0>>
        /\ stdout[r] # <<>>
        /\ uninitialized_var[r] = initialized_var[r]

\* C3: every run eventually terminates, and whenever a run has terminated
\* its exit status is 0.
C3_NoFailurePath ==
    /\ \A r \in Runs : <>Exited(r)
    /\ [](\A r \in Runs : Exited(r) => exit_status[r] = <<0>>)

C3_Witness ==
    \A r \in Runs : Exited(r) /\ exit_status[r] = <<0>>

\* C4: stdout holds 0 or 1 lines in every state, exactly 1 line once the
\* run has terminated, and stderr is always empty.
C4_OneLine ==
    \A r \in Runs :
        /\ CountNewlines(stdout[r]) \in {0, 1}
        /\ Exited(r) => CountNewlines(stdout[r]) = 1
        /\ stderr[r] = <<>>

C4_Witness ==
    \E r \in Runs : Exited(r) /\ CountNewlines(stdout[r]) = 1

\* C5: two terminated runs end with the same stdout contents and the same
\* exit status, whatever arguments each was started with.
C5_ArgsNoEffect ==
    \A r1, r2 \in Runs :
        (Exited(r1) /\ Exited(r2)) =>
            (stdout[r1] = stdout[r2] /\ exit_status[r1] = exit_status[r2])

C5_Witness ==
    /\ Exited(1) /\ Exited(2)
    /\ Len(argv[1]) # Len(argv[2])
    /\ stdout[1] # <<>>

\* C6: a run that performs the assignment and a run of the variant in which
\* the assignment is a no-op, started with the same arguments, end with the
\* same stdout contents and the same exit status.
C6_AssignNotObservable ==
    (Exited(1) /\ Exited(2) /\ argv[1] = argv[2]) =>
        (stdout[1] = stdout[2] /\ exit_status[1] = exit_status[2])

C6_Witness ==
    /\ Exited(1) /\ Exited(2) /\ argv[1] = argv[2]
    /\ uninitialized_var[1] = 42
    /\ uninitialized_var[2] = 0

\* C7: once line 13 has executed, up to and including the terminated state,
\* uninitialized_var equals initialized_var and both are 42.
C7_EqualAfterAssign ==
    \A r \in Runs :
        pc[r] # "L13" =>
            (uninitialized_var[r] = initialized_var[r] /\ uninitialized_var[r] = 42
             /\ initialized_var[r] = 42)

C7_Witness ==
    \E r \in Runs : Exited(r) /\ uninitialized_var[r] = 42

\* C8: uninitialized_var changes exactly once: the step of line 13 changes
\* it, line 13 is never executed again, and no other step changes it.
C8_MutatedOnce ==
    [][\A r \in Runs :
        /\ (uninitialized_var'[r] # uninitialized_var[r]) => pc[r] = "L13"
        /\ (pc[r] = "L13" /\ pc'[r] # "L13") =>
               uninitialized_var'[r] # uninitialized_var[r]
        /\ pc[r] # "L13" => pc'[r] # "L13"
      ]_vars

C8_Witness ==
    \E r \in Runs : Exited(r) /\ uninitialized_var[r] # uninitialized_var_init

\* C9: initialized_var is 42 and message is "Hello from ELF!" in every
\* state from program start to termination.
C9_ConstantsUntouched ==
    \A r \in Runs :
        /\ initialized_var[r] = 42
        /\ message[r] = SubSeq(HelloLine, 1, 15) \o <<0>>

C9_Witness ==
    \E r \in Runs : Exited(r) /\ initialized_var[r] = 42 /\ Len(message[r]) = 16

\* C10: uninitialized_var is 0 in every state before line 13 has executed,
\* and over the whole execution it is either 0 or 42.
C10_ZeroThenFortyTwo ==
    \A r \in Runs :
        /\ pc[r] = "L13" => uninitialized_var[r] = 0
        /\ uninitialized_var[r] \in {0, 42}

C10_Witness ==
    \E r1, r2 \in Runs :
        /\ pc[r1] = "L13" /\ uninitialized_var[r1] = 0
        /\ pc[r2] # "L13" /\ uninitialized_var[r2] = 42

====
